---------------------------- MODULE Spec2Model ----------------------------
(***************************************************************************)
(* A state-machine model of the crawl-and-transform engine of xwdocs:      *)
(*   - UrlScraper::run          (src/src/core/scraper/url_scraper.rs)       *)
(*   - Requester::request       (src/src/core/requester.rs)                 *)
(*   - RateLimiter::wait        (src/src/core/scraper/rate_limiter.rs)      *)
(*   - EntryIndex::add          (src/src/core/doc.rs)                       *)
(*   - split_ints, sort_entries (src/src/core/doc.rs)                       *)
(* Strings are sequences: URLs and paths are sequences of one-character    *)
(* strings, names handed to sort_entries are sequences of ASCII codes      *)
(* (their byte order decides the comparison).                              *)
(***************************************************************************)
EXTENDS Integers, Sequences, FiniteSets, TLC

VARIABLES
    \* ---- UrlScraper::run ----
    policy,        \* the UrlScraper's configuration fields (fixed during a run)
    pc,            \* position of run(): "start", "loop", "fetching", "done", "failed"
    queue,         \* VecDeque<String>: the frontier
    visited,       \* HashSet<String>
    cur,           \* the url popped by the current loop iteration
    entries,       \* Vec<(String, String, String)>
    pages,         \* HashMap<String, String>: path -> content
    redirections,  \* HashMap<String, String>: url -> effective url
    error,         \* the Err that run returned, "none" while it has returned none
    fetched,       \* history: the urls handed to fetch_url, in order
    dropped,       \* history: the urls popped and dropped by should_process_url
    found,         \* history: the seed urls and the links extract_links returned
    pages_before,  \* history: the page map as the crawl loop left it
    handled,       \* history: status and content type of the response of this iteration
    logged,        \* history: the urls whose fetch error was printed (line 545)
    files,         \* the output directory: file name -> what was written last
    \* ---- Requester::request ----
    rq_queue,      \* Arc<Mutex<Vec<String>>>
    rq_processed,  \* Arc<Mutex<HashMap<String, bool>>> (its key set)
    rq_pc,         \* position of the coordinating loop
    rq_filled,     \* iterations of `for _ in 0..max_concurrency` done in this round
    rq_tasks,      \* the spawned tasks of this round: sequence of [url, st]
    rq_requests,   \* history: how often each url was handed to send_request
    max_concurrency, \* Requester.max_concurrency
    on_response,   \* Requester.on_response: the number of registered callbacks
    \* ---- RateLimiter ----
    now,           \* the clock, in ticks of 100 ms since the limiter was created
    limit,         \* RateLimiter.limit
    current_minute,\* RateLimiter.current_minute
    counter,       \* RateLimiter.counter
    last_request_time, \* RateLimiter.last_request_time: [some, at]
    rl_pc,         \* "idle", or "sleeping" inside wait()
    wake_at,       \* when the sleep of the running wait() ends
    rl_branch,     \* the branch the running (or last) wait() took: "limit" or "spacing"
    call_no,       \* history: number of wait() calls started
    call_at,       \* history: the time the running (or last) wait() was called
    created_at,    \* history: the time RateLimiter::new ran
    limits,        \* history: the limits given to new and set_limit so far
    returns_in_minute, \* history: wait() calls returned in the clock minute of `now`
    \* ---- EntryIndex ----
    ei_entries,    \* EntryIndex.entries
    ei_index,      \* EntryIndex.index: HashSet of serialized entries
    ei_types,      \* EntryIndex.types: type name -> IndexType
    ei_last,       \* history: the last add call, [entry, before_entries, before_types]
    \* ---- sort_entries ----
    so_a, so_b,    \* the two names compared
    so_result,     \* sort_entries(so_a, so_b), or "none" before the call
    so_list,       \* history: the names of the entries in the order they were added
    so_sorted,     \* the names of FullIndex.entries, as to_full_index returned them
    so_types,      \* FullIndex.types, as to_full_index returned them
    \* ---- FilterStack ----
    fs_filters,    \* FilterStack.filters: the names, in stack order
    fs_factories,  \* FilterStack.factories: the registered names
    fs_last        \* history: the last call, [op, index, name, before, ok]

scraperVars == <<policy, pc, queue, visited, cur, entries, pages, redirections,
                 error, fetched, dropped, found, pages_before, logged, handled, files>>
requesterVars == <<rq_queue, rq_processed, rq_pc, rq_filled, rq_tasks,
                   rq_requests, max_concurrency, on_response>>
limiterVars == <<now, limit, current_minute, counter, last_request_time, rl_pc,
                 wake_at, rl_branch, call_no, call_at, created_at, limits,
                 returns_in_minute>>
indexVars == <<ei_entries, ei_index, ei_types, ei_last>>
sortVars == <<so_a, so_b, so_result, so_list, so_sorted, so_types>>
stackVars == <<fs_filters, fs_factories, fs_last>>
vars == <<scraperVars, requesterVars, limiterVars, indexVars, sortVars, stackVars>>

\* what a step of one component leaves alone
NotScraper == <<requesterVars, limiterVars, indexVars, sortVars, stackVars>>

NotRequester == <<scraperVars, limiterVars, indexVars, sortVars, stackVars>>

NotLimiter == <<scraperVars, requesterVars, indexVars, sortVars, stackVars>>

NotIndex == <<scraperVars, requesterVars, limiterVars, sortVars, stackVars>>

NotSort == <<scraperVars, requesterVars, limiterVars, indexVars, stackVars>>
NotStack == <<scraperVars, requesterVars, limiterVars, indexVars, sortVars>>

(***************************************************************************)
(* String primitives (Rust's str methods on sequences).                    *)
(***************************************************************************)
StartsWith(s, p) == Len(p) <= Len(s) /\ SubSeq(s, 1, Len(p)) = p

EndsWith(s, p) == Len(p) <= Len(s) /\ SubSeq(s, Len(s) - Len(p) + 1, Len(s)) = p

Contains(s, p) == \E i \in 1..(Len(s) - Len(p) + 1) : SubSeq(s, i, i + Len(p) - 1) = p

RECURSIVE TrimStartMatches(_, _)
TrimStartMatches(s, p) ==
    IF p # <<>> /\ StartsWith(s, p)
    THEN TrimStartMatches(SubSeq(s, Len(p) + 1, Len(s)), p)
    ELSE s

AnyOf(seq, P(_)) == \E i \in 1..Len(seq) : P(seq[i])

None == [some |-> FALSE, val |-> <<>>]

Some(v) == [some |-> TRUE, val |-> v]

Range(seq) == {seq[i] : i \in 1..Len(seq)}

\* char::to_lowercase on the alphabet of the model ("A" is its one upper-case letter)
LowerChar(c) == IF c = "A" THEN "a" ELSE c

ToLowercase(s) == [i \in 1..Len(s) |-> LowerChar(s[i])]

\* the orders in which a HashMap with key set S may be iterated
Orders(S) == {o \in [1..Cardinality(S) -> S] : \A i, j \in 1..Cardinality(S) : o[i] = o[j] => i = j}

(***************************************************************************)
(* The strings of the model.                                               *)
(***************************************************************************)
Http == <<"h", "t", "t", "p", ":", "/", "/">>

Https == <<"h", "t", "t", "p", "s", ":", "/", "/">>

IndexPath == <<"i", "n", "d", "e", "x">>

UnknownPath == <<"u", "n", "k", "n", "o", "w", "n">>

OtherType == <<"O", "t", "h", "e", "r">>

B1 == Http \o <<"h">>          \* the primary base URL, "http://h"

B2 == Http \o <<"m">>          \* a mirror base URL, "http://m"

Ext == Http \o <<"x">>         \* a site outside every base URL, "http://x"

(***************************************************************************)
(* Regex: the patterns of the model are a literal, optionally anchored     *)
(* with a leading "^" and optionally followed by ".*"; a pattern holding   *)
(* "(" is an unclosed group, which Regex::new rejects.                     *)
(***************************************************************************)
RegexValid(pattern) == ~Contains(pattern, <<"(">>)

RegexLiteral(pattern) ==
    LET p1 == IF StartsWith(pattern, <<"^">>) THEN SubSeq(pattern, 2, Len(pattern)) ELSE pattern
    IN  IF EndsWith(p1, <<".", "*">>) THEN SubSeq(p1, 1, Len(p1) - 2) ELSE p1

\* Regex::is_match: an unanchored search
RegexIsMatch(pattern, text) ==
    IF StartsWith(pattern, <<"^">>)
    THEN StartsWith(text, RegexLiteral(pattern))
    ELSE Contains(text, RegexLiteral(pattern))

(***************************************************************************)
(* UrlScraper: the pure helpers of url_scraper.rs.  `p` is the UrlScraper  *)
(* (its policy fields).                                                    *)
(***************************************************************************)
get_base_urls(p) == IF p.base_urls.some THEN p.base_urls.val ELSE <<p.base_url>>

normalize_url(base_url, path) ==
    IF StartsWith(path, Http) \/ StartsWith(path, Https)
    THEN path
    ELSE LET base == IF EndsWith(base_url, <<"/">>) THEN base_url ELSE base_url \o <<"/">>
             normalized_path == IF StartsWith(path, <<"/">>)
                                THEN SubSeq(path, 2, Len(path))
                                ELSE path
         IN  base \o normalized_path

\* Url::parse(url).path(): the part after scheme and host, up to "?" or "#";
\* a string with no scheme does not parse.
UrlParses(url) == StartsWith(url, Http) \/ StartsWith(url, Https)

RECURSIVE TakeUntil(_, _)
TakeUntil(s, stops) ==
    IF s = <<>> \/ Head(s) \in stops THEN <<>> ELSE <<Head(s)>> \o TakeUntil(Tail(s), stops)

UrlParsePath(url) ==
    LET rest == IF StartsWith(url, Https) THEN SubSeq(url, Len(Https) + 1, Len(url))
                ELSE SubSeq(url, Len(Http) + 1, Len(url))
        host == TakeUntil(rest, {"/", "?", "#"})
        tail == SubSeq(rest, Len(host) + 1, Len(rest))
        path == TakeUntil(tail, {"?", "#"})
    IN  IF path = <<>> THEN <<"/">> ELSE path

url_to_path(p, url) ==
    LET bases == get_base_urls(p)
        hits == {i \in 1..Len(bases) : StartsWith(url, bases[i])}
    IN  IF hits # {}
        THEN LET base_url == bases[CHOOSE i \in hits : \A j \in hits : i <= j]
                 path == TrimStartMatches(TrimStartMatches(url, base_url), <<"/">>)
             IN  IF path = <<>> THEN IndexPath ELSE path
        ELSE IF UrlParses(url)
             THEN LET path == TrimStartMatches(UrlParsePath(url), <<"/">>)
                  IN  IF path = <<>> THEN IndexPath ELSE path
             ELSE UnknownPath

get_initial_urls(p) ==
    [i \in 1..Len(p.initial_paths) |-> normalize_url(p.base_url, p.initial_paths[i])]
    \o (IF p.base_urls.some THEN Tail(p.base_urls.val) ELSE <<>>)

\* the skip_link closure: the model's closures are `|url| url.contains(needle)`
skip_fn(needle, url) == Contains(url, needle)

PathListMatches(list, path) ==
    \E i \in 1..Len(list) : path = list[i] \/ StartsWith(path, list[i] \o <<"/">>)

PatternListMatches(list, path) ==
    \E i \in 1..Len(list) : RegexValid(list[i]) /\ RegexIsMatch(list[i], path)

\* a should_process_url whose base-URL test lets every url through
InBaseUrls_unchecked(p, url) == TRUE

InBaseUrls(p, url) == \E i \in 1..Len(get_base_urls(p)) : StartsWith(url, get_base_urls(p)[i])

\* a should_process_url in which the allow list overrides the skip rules
should_process_url_allow_wins(p, url) ==
    /\ InBaseUrls(p, url)
    /\ IF p.only.some
       THEN PathListMatches(p.only.val, url_to_path(p, url))
       ELSE /\ ~PathListMatches(p.skip_paths, url_to_path(p, url))
            /\ ~PatternListMatches(p.skip_patterns, url_to_path(p, url))

should_process_url(p, url) ==
    IF ~InBaseUrls(p, url) THEN FALSE
    ELSE IF p.skip_link.some /\ skip_fn(p.skip_link.val, url) THEN FALSE
    ELSE LET path == url_to_path(p, url)
         IN  IF PathListMatches(p.skip_paths, path) THEN FALSE
             ELSE IF PatternListMatches(p.skip_patterns, path) THEN FALSE
             ELSE IF p.only.some /\ ~PathListMatches(p.only.val, path) THEN FALSE
             ELSE IF p.only_patterns.some /\ ~PatternListMatches(p.only_patterns.val, path) THEN FALSE
             ELSE TRUE

\* extract_links: every a[href] of the html, normalized against the page's url
extract_links(hrefs, base_url) == [i \in 1..Len(hrefs) |-> normalize_url(base_url, hrefs[i])]

create_entry(path) == <<path, path, OtherType>>

DefaultType == <<"G", "u", "i", "d", "e">>                \* DEFAULT_TYPE

PluginType == <<"O", "t", "h", "e", "r", " ", "P", "l", "u", "g", "i", "n", "s">>

BabelPlugin == <<"b", "a", "b", "e", "l", "-", "p", "l", "u", "g", "i", "n">>

\* the categories of ENTRIES (entries.rs 11-15)
Categories == {<<"U", "s", "a", "g", "e">>, <<"P", "r", "e", "s", "e", "t", "s">>, <<"T", "o", "o", "l", "i", "n", "g">>}

\* ENTRIES[category]: the name prefixes of a category
Prefixes(category) ==
    IF category = <<"U", "s", "a", "g", "e">>
    THEN
      {<<"O", "p", "t", "i", "o", "n", "s">>,
       <<"P", "l", "u", "g", "i", "n", "s">>,
       <<"C", "o", "n", "f", "i", "g", " ", "F", "i", "l", "e", "s">>,
       <<"C", "o", "m", "p", "i", "l", "e", "r", " ", "a", "s", "s", "u", "m", "p", "t", "i", "o", "n", "s">>,
       <<"@", "b", "a", "b", "e", "l", "/", "c", "l", "i">>,
       <<"@", "b", "a", "b", "e", "l", "/", "p", "o", "l", "y", "f", "i", "l", "l">>,
       <<"@", "b", "a", "b", "e", "l", "/", "p", "l", "u", "g", "i", "n", "-", "t", "r", "a", "n", "s", "f", "o", "r", "m", "-", "r", "u", "n", "t", "i", "m", "e">>,
       <<"@", "b", "a", "b", "e", "l", "/", "r", "e", "g", "i", "s", "t", "e", "r">>}
    ELSE IF category = <<"P", "r", "e", "s", "e", "t", "s">>
    THEN {<<"@", "b", "a", "b", "e", "l", "/", "p", "r", "e", "s", "e", "t">>}
    ELSE
      {<<"@", "b", "a", "b", "e", "l", "/", "p", "a", "r", "s", "e", "r">>,
       <<"@", "b", "a", "b", "e", "l", "/", "c", "o", "r", "e">>,
       <<"@", "b", "a", "b", "e", "l", "/", "g", "e", "n", "e", "r", "a", "t", "o", "r">>,
       <<"@", "b", "a", "b", "e", "l", "/", "c", "o", "d", "e", "-", "f", "r", "a", "m", "e">>,
       <<"@", "b", "a", "b", "e", "l", "/", "h", "e", "l", "p", "e", "r">>,
       <<"@", "b", "a", "b", "e", "l", "/", "r", "u", "n", "t", "i", "m", "e">>,
       <<"@", "b", "a", "b", "e", "l", "/", "t", "e", "m", "p", "l", "a", "t", "e">>,
       <<"@", "b", "a", "b", "e", "l", "/", "t", "r", "a", "v", "e", "r", "s", "e">>,
       <<"@", "b", "a", "b", "e", "l", "/", "t", "y", "p", "e", "s">>,
       <<"@", "b", "a", "b", "e", "l", "/", "s", "t", "a", "n", "d", "a", "l", "o", "n", "e">>}

\* the characters with the Unicode property White_Space that a string of this
\* module can hold: U+0009 to U+000D, U+0020, U+0085 and U+00A0.  The others
\* (U+1680, U+2000 to U+200A, U+2028, U+2029, U+202F, U+205F, U+3000) lie
\* outside the characters of the model's texts.
VerticalTab == ""                          \* U+000B

NextLine == ""                             \* U+0085

NoBreakSpace == " "                         \* U+00A0

Whitespace == {" ", "\t", "\n", VerticalTab, "\f", "\r", NextLine, NoBreakSpace}

\* str::trim: the White_Space characters at both ends go
RECURSIVE TrimStart(_)
TrimStart(str) ==
    IF str # <<>> /\ Head(str) \in Whitespace THEN TrimStart(Tail(str)) ELSE str

RECURSIVE TrimEnd(_)
TrimEnd(str) ==
    IF str # <<>> /\ str[Len(str)] \in Whitespace
    THEN TrimEnd(SubSeq(str, 1, Len(str) - 1))
    ELSE str

Trim(str) == TrimEnd(TrimStart(str))

\* BabelEntriesFilter::get_entries (entries.rs 40-89).  h1 is the text of the
\* first h1 element of the html, None when it has none.  No entry without a
\* name; otherwise one entry whose type is the category of ENTRIES that has a
\* prefix of the name (no name has prefixes in two categories, so the order
\* in which the map is walked does not matter), else PLUGIN_TYPE when the
\* current path contains "babel-plugin", else DEFAULT_TYPE.
get_entries(h1, current_path) ==
    IF ~h1.some THEN <<>>
    ELSE LET name == Trim(h1.val)
             hits == {c \in Categories : \E prefix \in Prefixes(c) : StartsWith(name, prefix)}
             final_entry_type ==
                 IF hits # {} THEN CHOOSE c \in hits : TRUE
                 ELSE IF Contains(current_path, BabelPlugin) THEN PluginType
                 ELSE DefaultType
         IN  IF name = <<>> THEN <<>>
             ELSE << <<name, current_path, final_entry_type>> >>

\* should_process_response: status, then the Content-Type header (a response
\* without the header passes), then the url
should_process_response(p, resp, url) ==
    IF ~resp.success THEN FALSE
    ELSE IF resp.ctype = "other" THEN FALSE
    ELSE should_process_url(p, url)

(***************************************************************************)
(* The policies, the site and the transport the crawl is checked against.  *)
(***************************************************************************)
DefaultPolicy ==
    [base_url |-> B1, base_urls |-> None, initial_paths |-> << <<"/">> >>,
     skip_paths |-> <<>>, skip_patterns |-> <<>>, only |-> None,
     only_patterns |-> None, skip_link |-> None]

\* mirrors, and the skip regex "u/.*" beside a pattern that does not compile
MirrorSkipPolicy ==
    [DefaultPolicy EXCEPT !.base_urls = Some(<<B1, B2>>),
                          !.skip_patterns = << <<"(">>, <<"u", "/", ".", "*">> >>]

Policies == {DefaultPolicy, MirrorSkipPolicy}

RootUrl == B1 \o <<"/">>                       \* "http://h/"

PageA == B1 \o <<"/", "a">>                    \* "http://h/a"

PageUO == B1 \o <<"/", "u", "/", "o">>         \* "http://h/u/o"

PageB == B1 \o <<"/", "b">>                    \* "http://h/b", reached by redirect only

ExtA == Ext \o <<"/", "a">>                    \* "http://x/a"

\* what the a[href] attributes of a page may hold
Hrefs == {PageA, PageUO, ExtA, <<"/", "a">>}

\* the urls under which the site serves pages that hold links; every other
\* url is served without links
SitePages == {RootUrl, PageA}

MaxLinks == 2            \* links on one page

LinkLists == UNION {[1..n -> Hrefs] : n \in 0..MaxLinks}

\* the entries the filters may leave in context.additional_entries
AdditionalEntries(url) ==
    IF url = RootUrl THEN { <<>>, << << <<"n">>, <<"a">>, <<"T">> >> >> } ELSE { <<>> }

\* Url::to_string of a parsed url (response.url().to_string(), line 476): a
\* url without a path is written with the path "/"
UrlToString(url) ==
    LET scheme == IF StartsWith(url, Https) THEN Https ELSE Http
        rest == SubSeq(url, Len(scheme) + 1, Len(url))
        host == TakeUntil(rest, {"/", "?", "#"})
        tail == SubSeq(rest, Len(host) + 1, Len(rest))
    IN  IF StartsWith(tail, <<"/">>) THEN url ELSE scheme \o host \o <<"/">> \o tail

\* where the transport may end up after following redirects from url: the
\* url itself as the url crate writes it, or the target of a redirect
EffectiveUrls(url) ==
    {UrlToString(url)}
    \cup (IF url = PageA THEN {PageB, PageUO} ELSE IF url = B2 THEN {ExtA} ELSE {})

\* the outcomes of fetch_url, response.text() and the filters for one url:
\*   err         fetch_url returned Err
\*   effective   response.url().to_string()
\*   success     response.status().is_success()
\*   ctype       the Content-Type header: "html", "other", or "absent" (no
\*               header, or one that is not valid text)
\*   body_ok     response.text() returned Ok
\*   filter_ok   every filter.apply returned Ok
\*   hrefs       the a[href] values of context.html after the filters
\*   has_content context.content is not empty after the filters
\*   additional  context.additional_entries after the filters
Resp(e, eff, sc, ct, b, f, l, c, a) ==
    [err |-> e, effective |-> eff, success |-> sc, ctype |-> ct, body_ok |-> b,
     filter_ok |-> f, hrefs |-> l, has_content |-> c, additional |-> a]

ContentTypes == {"html", "other", "absent"}

\* the content types should_process_response lets through
PassingTypes == {"html", "absent"}

\* every outcome may come with every effective url; the fields a rejected or
\* failed response is never asked for are left at one value
Responses(url) ==
    {Resp(TRUE, url, FALSE, "absent", FALSE, FALSE, <<>>, FALSE, <<>>)}
    \cup {Resp(FALSE, eff, FALSE, ct, TRUE, TRUE, <<>>, FALSE, <<>>) :
            eff \in EffectiveUrls(url), ct \in ContentTypes}
    \cup {Resp(FALSE, eff, TRUE, "other", TRUE, TRUE, <<>>, FALSE, <<>>) :
            eff \in EffectiveUrls(url)}
    \cup {Resp(FALSE, eff, TRUE, ct, FALSE, TRUE, <<>>, FALSE, <<>>) :
            eff \in EffectiveUrls(url), ct \in PassingTypes}
    \cup {Resp(FALSE, eff, TRUE, ct, TRUE, FALSE, <<>>, FALSE, <<>>) :
            eff \in EffectiveUrls(url), ct \in PassingTypes}
    \cup {Resp(FALSE, eff, TRUE, ct, TRUE, TRUE, l, c, a) :
            eff \in EffectiveUrls(url), ct \in PassingTypes,
            l \in (IF url \in SitePages THEN LinkLists ELSE {<<>>}),
            c \in BOOLEAN, a \in AdditionalEntries(url)}

\* the first h1 of the page served under url: the root page is titled
\* "Options", the page /a "&nbsp;t ", and the other pages have no h1
PageTitle(url) ==
    IF url = RootUrl THEN Some(<<"O", "p", "t", "i", "o", "n", "s">>)
    ELSE IF url = PageA THEN Some(<<NoBreakSpace, "t", " ">>)
    ELSE None

\* context.content of a page: the model's pages render to their own url
ContentOf(url, resp) == IF resp.has_content THEN <<"c">> \o url ELSE <<>>

(***************************************************************************)
(* UrlScraper::run.                                                        *)
(***************************************************************************)
Absent == [state |-> "absent", data |-> <<>>]

\* no response handled yet
NoResponse == [success |-> FALSE, ctype |-> "none"]

\* HashMap::insert / remove on a map kept as a function
MapInsert(m, k, v) == [x \in DOMAIN m \cup {k} |-> IF x = k THEN v ELSE m[x]]

MapRemove(m, k) == [x \in DOMAIN m \ {k} |-> m[x]]

EmptyMap == [x \in {} |-> <<>>]

InitScraper ==
    /\ policy \in Policies
    /\ pc = "start"
    /\ queue = <<>>
    /\ visited = {}
    /\ cur = <<>>
    /\ entries = <<>>
    /\ pages = EmptyMap
    /\ redirections = EmptyMap
    /\ error = "none"
    /\ fetched = <<>>
    /\ dropped = {} /\ found = {}
    /\ pages_before = EmptyMap
    /\ logged = {} /\ handled = NoResponse
    /\ files = [dir |-> FALSE, entries_json |-> Absent, db_json |-> Absent,
               index_json |-> Absent]

\* an existing file that holds nothing: what File::create leaves
Empty == [state |-> "empty", data |-> <<>>]

\* a file that holds a proper, non-empty prefix of the bytes that were to be
\* written: what a write_all leaves that failed after its first write
Partial == [state |-> "partial", data |-> <<>>]

\* the four fs::write calls of run, in program order: "[]" and "{}" before
\* the loop (lines 421, 427), the entries and the page map after it (553, 586)
WriteSites == {"init_entries", "init_db", "save_entries", "save_db"}

\* run's position inside the fs::write of a site: the file is created (or
\* truncated) and its content is not written yet
Writing(site) == site \o "_w"

FileOf(site) == IF site \in {"init_entries", "save_entries"} THEN "entries_json" ELSE "db_json"

\* the Err each call's map_err produces
ErrorOf(site) ==
    IF site = "init_entries" THEN "create_entries"
    ELSE IF site = "init_db" THEN "create_db"
    ELSE IF site = "save_entries" THEN "write_entries"
    ELSE "write_db"

\* where run stands after the call returned Ok
AfterWrite(site) ==
    IF site = "init_entries" THEN "init_db"
    ELSE IF site = "init_db" THEN "loop"
    ELSE IF site = "save_entries" THEN "save_db"
    ELSE "done"

\* a run whose last fs::write leaves db.json as it is
Written_without_db(fs, site, es, pgs) ==
    IF site = "save_entries" THEN [fs EXCEPT !.entries_json = [state |-> "final", data |-> es]]
    ELSE IF site = "save_db" THEN fs
    ELSE [fs EXCEPT ![FileOf(site)] = [state |-> "initial", data |-> <<>>]]

\* the directory after the write_all of a site: "[]" or "{}" before the
\* loop, the serialized entries or page map after it
Written(fs, site, es, pgs) ==
    IF site = "save_entries" THEN [fs EXCEPT !.entries_json = [state |-> "final", data |-> es]]
    ELSE IF site = "save_db" THEN [fs EXCEPT !.db_json = [state |-> "final", data |-> pgs]]
    ELSE [fs EXCEPT ![FileOf(site)] = [state |-> "initial", data |-> <<>>]]

\* lines 415-417: fs::create_dir_all, whose Err ends run
CreateDir ==
    /\ pc = "start"
    /\ \E ok \in BOOLEAN :
          IF ok
          THEN files' = [files EXCEPT !.dir = TRUE] /\ pc' = "init_entries" /\ error' = error
          ELSE files' = files /\ pc' = "failed" /\ error' = "create_dir"
    /\ UNCHANGED <<policy, queue, visited, cur, entries, pages, redirections, fetched, dropped,
                   found, pages_before, logged, handled>>
    /\ UNCHANGED NotScraper

\* the first half of fs::write: File::create makes the file, or truncates
\* the one that is there; its Err ends run and leaves the file as it was
FsCreate ==
    /\ pc \in WriteSites
    /\ \E ok \in BOOLEAN :
          IF ok
          THEN /\ files' = [files EXCEPT ![FileOf(pc)] = Empty]
               /\ pc' = Writing(pc)
               /\ error' = error
          ELSE files' = files /\ pc' = "failed" /\ error' = ErrorOf(pc)
    /\ UNCHANGED <<policy, queue, visited, cur, entries, pages, redirections, fetched, dropped,
                   found, pages_before, logged, handled>>
    /\ UNCHANGED NotScraper

\* one iteration of `while let Some(url) = queue.pop_front()` up to the
\* request (lines 451-473): skipped urls are dropped, an admitted url is
\* marked visited and handed to fetch_url
\* a loop that forgets the visited set
Admit_revisit(url, seen, p) == should_process_url(p, url)

\* lines 452-459: the two tests a popped url has to pass
Admit(url, seen, p) == url \notin seen /\ should_process_url(p, url)

Pop ==
    /\ pc = "loop"
    /\ queue # <<>>
    /\ LET url == Head(queue)
       IN  /\ queue' = Tail(queue)
           /\ IF Admit(url, visited, policy)
              THEN /\ visited' = visited \cup {url}
                   /\ cur' = url
                   /\ fetched' = Append(fetched, url)
                   /\ pc' = "fetching"
                   /\ UNCHANGED dropped
              ELSE /\ dropped' = IF url \notin visited THEN dropped \cup {url} ELSE dropped
                   /\ UNCHANGED <<pc, visited, cur, fetched>>
    /\ handled' = NoResponse
    /\ UNCHANGED <<policy, entries, pages, redirections, error, found, pages_before,
                   logged, files>>
    /\ UNCHANGED NotScraper

\* a loop that pushes the first link of a page only
PushNew_first_only(q, new_urls, seen) ==
    IF new_urls # <<>> /\ Head(new_urls) \notin seen THEN Append(q, Head(new_urls)) ELSE q

\* pushes of lines 525-529
RECURSIVE PushNew(_, _, _)
PushNew(q, new_urls, seen) ==
    IF new_urls = <<>> THEN q
    ELSE PushNew(IF Head(new_urls) \notin seen THEN Append(q, Head(new_urls)) ELSE q,
                 Tail(new_urls), seen)

\* an Err arm that ends run with the error
OnFetchErr_abort ==
    /\ logged' = logged \cup {cur}
    /\ pc' = "failed"
    /\ error' = "fetch"
    /\ UNCHANGED <<queue, entries, pages, redirections>>

\* lines 544-546: the Err arm prints the error and the loop goes on
OnFetchErr ==
    /\ logged' = logged \cup {cur}
    /\ pc' = "loop"
    /\ UNCHANGED <<queue, entries, pages, redirections, error>>

\* the rest of the iteration (lines 473-547): the match on fetch_url's result
Fetch ==
    /\ pc = "fetching"
    /\ \E resp \in Responses(cur) :
         IF resp.err
         THEN OnFetchErr /\ handled' = handled /\ found' = found
         ELSE /\ logged' = logged
              /\ handled' = [success |-> resp.success, ctype |-> resp.ctype]
              /\ redirections' = IF resp.effective # cur
                                 THEN MapInsert(redirections, cur, resp.effective)
                                 ELSE redirections
              /\ IF ~should_process_response(policy, resp, cur)
                 THEN pc' = "loop" /\ UNCHANGED <<queue, entries, pages, error, found>>
                 ELSE IF ~resp.body_ok
                 THEN /\ pc' = "failed" /\ error' = "body"
                      /\ UNCHANGED <<queue, entries, pages, found>>
                 ELSE IF ~resp.filter_ok
                 THEN /\ pc' = "failed" /\ error' = "filter"
                      /\ UNCHANGED <<queue, entries, pages, found>>
                 ELSE LET content == ContentOf(cur, resp)
                          path == url_to_path(policy, cur)
                          own == IF content # <<>> THEN <<create_entry(path)>> ELSE <<>>
                      IN  /\ queue' = PushNew(queue, extract_links(resp.hrefs, cur), visited)
                          /\ found' = found \cup Range(extract_links(resp.hrefs, cur))
                          /\ pages' = IF content # <<>> THEN MapInsert(pages, path, content)
                                      ELSE pages
                          /\ entries' = entries \o own \o resp.additional
                          /\ pc' = "loop"
                          /\ error' = error
    /\ UNCHANGED <<policy, visited, cur, fetched, dropped, pages_before, files>>
    /\ UNCHANGED NotScraper

\* lines 563-572: the redirects as a path map, built in iteration order `order`
RECURSIVE PathRedirections(_, _, _, _)
PathRedirections(p, redirects, order, acc) ==
    IF order = <<>> THEN acc
    ELSE LET from_path == url_to_path(p, Head(order))
             to_path == url_to_path(p, redirects[Head(order)])
         IN  PathRedirections(p, redirects, Tail(order),
                 IF from_path # to_path
                 THEN MapInsert(acc, ToLowercase(from_path), to_path)
                 ELSE acc)

\* lines 575-581: the keys of a clone of pages, visited in order `order`
RECURSIVE ApplyRedirections(_, _, _)
ApplyRedirections(pgs, path_redirections, order) ==
    IF order = <<>> THEN pgs
    ELSE LET path == Head(order)
             key == ToLowercase(path)
         IN  ApplyRedirections(
                 IF key \in DOMAIN path_redirections /\ path \in DOMAIN pgs
                 THEN MapInsert(MapRemove(pgs, path), path_redirections[key], pgs[path])
                 ELSE pgs,
                 path_redirections, Tail(order))

\* DocRegistry::load_from_disk, lines 81-88: a documentation directory is
\* registered when it holds index.json and db.json, and skipped otherwise
load_from_disk(fs) == fs.dir /\ fs.index_json # Absent /\ fs.db_json # Absent

\* the while loop finds the queue empty (line 451) and run serializes the
\* entries (551-552)
LoopEnd ==
    /\ pc = "loop"
    /\ queue = <<>>
    /\ pc' = "save_entries"
    /\ handled' = NoResponse
    /\ UNCHANGED <<policy, queue, visited, cur, entries, pages, redirections, error, fetched,
                   dropped, found, pages_before, logged, files>>
    /\ UNCHANGED NotScraper

\* the second half of fs::write: write_all, whose Err ends run with the file
\* left empty or holding a part of the content.  After the Ok of an fs::write run goes on to the next one: it
\* seeds the queue after the "{}" of db.json (lines 432-448) and fixes the
\* redirected paths after the entries are written (559-581).
FsWrite ==
    \E site \in WriteSites :
        /\ pc = Writing(site)
        /\ \E ok \in BOOLEAN :
              IF ~ok
              THEN /\ pc' = "failed"
                   /\ error' = ErrorOf(site)
                   /\ \E left \in {Empty, Partial} :
                         files' = [files EXCEPT ![FileOf(site)] = left]
                   /\ UNCHANGED <<queue, found, pages, pages_before>>
              ELSE /\ files' = Written(files, site, entries, pages)
                   /\ pc' = AfterWrite(site)
                   /\ error' = error
                   /\ IF site = "init_db"
                      THEN /\ queue' = get_initial_urls(policy)
                           /\ found' = Range(get_initial_urls(policy))
                      ELSE UNCHANGED <<queue, found>>
                   /\ IF site = "save_entries"
                      THEN \E o1 \in Orders(DOMAIN redirections), o2 \in Orders(DOMAIN pages) :
                              /\ pages' = ApplyRedirections(pages,
                                             PathRedirections(policy, redirections, o1, EmptyMap),
                                             o2)
                              /\ pages_before' = pages
                      ELSE UNCHANGED <<pages, pages_before>>
        /\ UNCHANGED <<policy, visited, cur, entries, redirections, fetched, dropped, logged,
                       handled>>
        /\ UNCHANGED NotScraper

(***************************************************************************)
(* Requester::request.  The coordinating loop runs inside block_on; every  *)
(* task it spawns runs on the runtime's worker threads, so the steps of    *)
(* the tasks interleave freely with the steps of the loop.                 *)
(***************************************************************************)
RqUrls == {"a", "b", "c"}

MaxUrls == 2             \* longest list of urls handed to request()

MaxConcurrency == 2      \* largest Requester.max_concurrency

\* how many callbacks on_response() has registered before request() runs
CallbackCounts == {0, 1, 2}

MaxQueue == 4            \* longest queue the callbacks are let to build

MaxResult == 3           \* longest list of urls one callback call returns

\* what one call of a response callback may return: None or Some(vec![])
\* (both <<>>), or Some(list) for any list of urls
CallbackResults == UNION {[1..n -> RqUrls] : n \in 0..MaxResult}

NoRequests == [u \in RqUrls |-> 0]

InitRequester ==
    /\ rq_queue \in UNION {[1..n -> RqUrls] : n \in 0..MaxUrls}
    /\ rq_processed = {}
    /\ rq_pc = "while"
    /\ rq_filled = 0
    /\ rq_tasks = <<>>
    /\ rq_requests = NoRequests
    /\ max_concurrency \in 1..MaxConcurrency
    /\ on_response \in CallbackCounts

\* get_next_url: the first url of the queue that is not in processed is
\* removed and returned; None (0) when there is none
NextIndex(q, processed) ==
    LET open == {i \in 1..Len(q) : q[i] \notin processed}
    IN  IF open = {} THEN 0 ELSE CHOOSE i \in open : \A j \in open : i <= j

RemoveAt(q, i) == SubSeq(q, 1, i - 1) \o SubSeq(q, i + 1, Len(q))

\* `while !queue.lock().unwrap().is_empty()` (line 65) and the fresh
\* FuturesUnordered of line 66
RqWhile ==
    /\ rq_pc = "while"
    /\ IF rq_queue = <<>>
       THEN rq_pc' = "done" /\ UNCHANGED <<rq_tasks, rq_filled>>
       ELSE rq_pc' = "fill" /\ rq_tasks' = <<>> /\ rq_filled' = 0
    /\ UNCHANGED <<rq_queue, rq_processed, rq_requests, max_concurrency, on_response>>
    /\ UNCHANGED NotRequester

\* a fill loop with no bound
RoundOpen_unbounded(filled, max) == TRUE

\* `for _ in 0..self.max_concurrency` (line 69): the loop body runs while
\* fewer than max_concurrency iterations are done
RoundOpen(filled, max) == filled < max

\* one iteration of `for _ in 0..self.max_concurrency` (lines 69-101):
\* get_next_url and tokio::spawn, or break
RqFill ==
    /\ rq_pc = "fill"
    /\ LET i == NextIndex(rq_queue, rq_processed)
       IN  IF RoundOpen(rq_filled, max_concurrency) /\ i # 0
           THEN /\ rq_queue' = RemoveAt(rq_queue, i)
                /\ rq_tasks' = Append(rq_tasks, [url |-> rq_queue[i], st |-> "spawned", called |-> 0])
                /\ rq_filled' = rq_filled + 1
                /\ rq_pc' = "fill"
           ELSE /\ rq_pc' = "await"
                /\ UNCHANGED <<rq_queue, rq_tasks, rq_filled>>
    /\ UNCHANGED <<rq_processed, rq_requests, max_concurrency, on_response>>
    /\ UNCHANGED NotRequester

\* `while let Some(result) = futures.next().await` (lines 104-107) ends when
\* every task of the round has completed
RqAwait ==
    /\ rq_pc = "await"
    /\ \A i \in 1..Len(rq_tasks) : rq_tasks[i].st = "done"
    /\ rq_pc' = "while"
    /\ UNCHANGED <<rq_queue, rq_processed, rq_filled, rq_tasks, rq_requests,
                   max_concurrency, on_response>>
    /\ UNCHANGED NotRequester

\* a task's first statement (line 79): mark its url processed
RqTaskMark(i) ==
    /\ rq_tasks[i].st = "spawned"
    /\ rq_processed' = rq_processed \cup {rq_tasks[i].url}
    /\ rq_tasks' = [rq_tasks EXCEPT ![i].st = "marked"]
    /\ UNCHANGED <<rq_queue, rq_pc, rq_filled, rq_requests, max_concurrency, on_response>>
    /\ UNCHANGED NotRequester

\* send_request (line 82); on Err the task ends (lines 93-95), and on Ok
\* it ends when no callback is registered
RqTaskSend(i) ==
    /\ rq_tasks[i].st = "marked"
    /\ rq_requests' = [rq_requests EXCEPT ![rq_tasks[i].url] = @ + 1]
    /\ \E ok \in BOOLEAN :
          rq_tasks' = [rq_tasks EXCEPT
                         ![i].st = IF ok /\ on_response > 0 THEN "sent" ELSE "done"]
    /\ UNCHANGED <<rq_queue, rq_processed, rq_pc, rq_filled, max_concurrency, on_response>>
    /\ UNCHANGED NotRequester

\* one iteration of `for callback in &on_response` (lines 85-91): the next
\* callback is called and `q.extend(new_urls)` runs under the queue lock,
\* which is released before the next iteration; the task ends after the last
\* callback.  The callbacks return lists that keep the queue within MaxQueue.
RqTaskCallback(i) ==
    /\ rq_tasks[i].st = "sent"
    /\ \E new_urls \in CallbackResults :
          /\ Len(rq_queue) + Len(new_urls) <= MaxQueue
          /\ rq_queue' = rq_queue \o new_urls
    /\ rq_tasks' = [rq_tasks EXCEPT
                      ![i].called = @ + 1,
                      ![i].st = IF rq_tasks[i].called + 1 = on_response THEN "done" ELSE "sent"]
    /\ UNCHANGED <<rq_processed, rq_pc, rq_filled, rq_requests, max_concurrency, on_response>>
    /\ UNCHANGED NotRequester

RqMark == \E i \in 1..Len(rq_tasks) : RqTaskMark(i)

RqSend == \E i \in 1..Len(rq_tasks) : RqTaskSend(i)

RqCallback == \E i \in 1..Len(rq_tasks) : RqTaskCallback(i)

(***************************************************************************)
(* RateLimiter.  Time is in milliseconds.  One clock serves SystemTime and *)
(* Instant (the wall clock is never adjusted), a call to wait() reads it   *)
(* once, and sleep(d) suspends for d exactly.                              *)
(***************************************************************************)
MillisPerSecond == 1000

SecondsPerMinute == 60

MinuteMargin == 61       \* `61 - current_seconds`

MinSpacing == 100        \* Duration::from_millis(100)

MaxLimit == 3            \* largest limit handed to RateLimiter::new

MaxMinutes == 2          \* wait() is called during the first MaxMinutes minutes

\* the time the caller lets pass between two calls
Delays == {0, 50, 100, 950, 20000}

\* the clock when RateLimiter::new runs
StartTimes == {0, 59950}

\* current_minute(): now.as_secs() / 60
MinuteOf(t) == (t \div MillisPerSecond) \div SecondsPerMinute

\* now.as_secs() % 60
SecondOf(t) == (t \div MillisPerSecond) % SecondsPerMinute

NoTime == [some |-> FALSE, at |-> 0]

InitLimiter ==
    /\ now \in StartTimes
    /\ limit \in 1..MaxLimit
    /\ current_minute = MinuteOf(now)
    /\ counter = 0
    /\ last_request_time = NoTime
    /\ rl_pc = "idle"
    /\ wake_at = 0
    /\ rl_branch = "none"
    /\ call_no = 0
    /\ call_at = 0
    /\ created_at = now
    /\ limits = {limit}
    /\ returns_in_minute = 0

\* the counter after lines 44-51
CounterAfterCall(t) == (IF MinuteOf(t) # current_minute THEN 0 ELSE counter) + 1

\* a limiter that lets the call that reaches the limit through
LimitReached_exceeded(c, l) == c > l

\* line 54: the call has to wait for the next minute
LimitReached(c, l) == c >= l

\* a limiter without the spacing sleep
SpacingSleep_none(t) == 0

\* lines 71-76: the spacing sleep, 0 when none is needed
SpacingSleep(t) ==
    IF last_request_time.some /\ t - last_request_time.at < MinSpacing
    THEN MinSpacing - (t - last_request_time.at)
    ELSE 0

\* a wait that ends at the minute boundary, without the margin
WaitSeconds_no_margin(t) == SecondsPerMinute - SecondOf(t)

\* lines 56-61
WaitSeconds(t) == MinuteMargin - SecondOf(t)

\* line 79, and the count of returns in the clock minute of the return
Returned(t) ==
    /\ last_request_time' = [some |-> TRUE, at |-> t]
    /\ returns_in_minute' =
          IF last_request_time.some /\ MinuteOf(last_request_time.at) = MinuteOf(t)
          THEN returns_in_minute + 1 ELSE 1

Horizon == MaxMinutes * SecondsPerMinute * MillisPerSecond

\* one call of wait(), made d after the last return (or after new), up to
\* its sleep, or to its return when it does not sleep
RlCall(t) ==
    /\ rl_pc = "idle"
    /\ t < Horizon
    /\ now' = t
    /\ call_no' = call_no + 1
    /\ call_at' = t
    /\ LET c == CounterAfterCall(t)
       IN  /\ current_minute' = MinuteOf(t)
           /\ counter' = c
           /\ IF LimitReached(c, limit)
              THEN /\ rl_pc' = "sleeping"
                   /\ rl_branch' = "limit"
                   /\ wake_at' = t + WaitSeconds(t) * MillisPerSecond
                   /\ UNCHANGED <<last_request_time, returns_in_minute>>
              ELSE IF SpacingSleep(t) > 0
              THEN /\ rl_pc' = "sleeping"
                   /\ rl_branch' = "spacing"
                   /\ wake_at' = t + SpacingSleep(t)
                   /\ UNCHANGED <<last_request_time, returns_in_minute>>
              ELSE /\ Returned(t)
                   /\ rl_branch' = "spacing"
                   /\ UNCHANGED <<rl_pc, wake_at>>
    /\ UNCHANGED <<limit, created_at, limits>>
    /\ UNCHANGED NotLimiter

RlWait == \E d \in Delays : RlCall(now + d)

\* the sleep ends and wait() runs to its return (lines 66-68 and 79)
RlWake ==
    /\ rl_pc = "sleeping"
    /\ now' = wake_at
    /\ IF rl_branch = "limit"
       THEN current_minute' = MinuteOf(wake_at) /\ counter' = 1
       ELSE UNCHANGED <<current_minute, counter>>
    /\ Returned(wake_at)
    /\ rl_pc' = "idle"
    /\ wake_at' = 0
    /\ UNCHANGED <<limit, rl_branch, call_no, call_at, created_at, limits>>
    /\ UNCHANGED NotLimiter

\* set_limit (lines 37-39), called between two calls of wait(): wait()
\* holds `&mut self` until it returns
SetLimit ==
    /\ rl_pc = "idle"
    /\ \E l \in 1..MaxLimit :
          /\ l # limit
          /\ limit' = l
          /\ limits' = limits \cup {l}
    /\ UNCHANGED <<now, current_minute, counter, last_request_time, rl_pc, wake_at,
                   rl_branch, call_no, call_at, created_at, returns_in_minute>>
    /\ UNCHANGED NotLimiter

\* how long the last wait() that returned was suspended
Slept == last_request_time.at - call_at

(***************************************************************************)
(* EntryIndex (doc.rs).  An IndexEntry is [name, path, type].              *)
(***************************************************************************)
EntryNames == {"n", "m"}

EntryPaths == {"p", "q"}

EntryTypes == {"T", "U"}

IndexEntries == [name : EntryNames, path : EntryPaths, type : EntryTypes]

MaxAdds == 4             \* number of add calls on one EntryIndex

\* a serialization that leaves the type out
EntryJson_without_type(entry) == <<"{", "name", entry.name, "path", entry.path, "}">>

\* serde_json::to_string(&entry): the fields in declaration order, entry_type
\* renamed to "type"
EntryJson(entry) == <<"{", "name", entry.name, "path", entry.path, "type", entry.type, "}">>

\* String::to_lowercase on the type names of the model
LowerType(t) == IF t = "T" THEN "t" ELSE IF t = "U" THEN "u" ELSE t

InitIndex ==
    /\ ei_entries = <<>>
    /\ ei_index = {}
    /\ ei_types = [t \in {} |-> 0]
    /\ ei_last = [calls |-> 0, entry |-> [name |-> "", path |-> "", type |-> ""],
                  entries |-> <<>>, types |-> [t \in {} |-> 0]]

\* HashSet::insert returns true when the value was not present
IsNewEntry(index, entry) == EntryJson(entry) \notin index

\* a summary that counts only the first entry of a type
CountType_first_only(types, entry) ==
    IF entry.type \in DOMAIN types
    THEN types
    ELSE MapInsert(types, entry.type,
                   [name |-> entry.type, count |-> 1, slug |-> LowerType(entry.type)])

\* lines 109-120
CountType(types, entry) ==
    IF entry.type \in DOMAIN types
    THEN [types EXCEPT ![entry.type].count = @ + 1]
    ELSE MapInsert(types, entry.type,
                   [name |-> entry.type, count |-> 1, slug |-> LowerType(entry.type)])

\* EntryIndex::add
EiAdd(entry) ==
    /\ ei_last.calls < MaxAdds
    /\ ei_last' = [calls |-> ei_last.calls + 1, entry |-> entry,
                   entries |-> ei_entries, types |-> ei_types]
    /\ IF IsNewEntry(ei_index, entry)
       THEN /\ ei_index' = ei_index \cup {EntryJson(entry)}
            /\ ei_types' = CountType(ei_types, entry)
            /\ ei_entries' = Append(ei_entries, entry)
       ELSE UNCHANGED <<ei_index, ei_types, ei_entries>>
    /\ UNCHANGED NotIndex

Add == \E entry \in IndexEntries : EiAdd(entry)

(***************************************************************************)
(* split_ints and sort_entries (doc.rs).  A name is a sequence of ASCII    *)
(* codes; String's Ord is the lexicographic order of the bytes.            *)
(***************************************************************************)
IsDigit(c) == c \in 48..57

LowerCode(c) == IF c \in 65..90 THEN c + 32 ELSE c

NameToLowercase(s) == [i \in 1..Len(s) |-> LowerCode(s[i])]

\* the loop of split_ints from character i on, with its three locals
RECURSIVE SplitIntsFrom(_, _, _, _, _)
SplitIntsFrom(s, i, result, current, last_was_digit) ==
    IF i > Len(s)
    THEN IF current # <<>> THEN Append(result, current) ELSE result
    ELSE LET is_digit == IsDigit(s[i])
             cut == is_digit /\ ~last_was_digit /\ current # <<>>
         IN  SplitIntsFrom(s, i + 1,
                           IF cut THEN Append(result, current) ELSE result,
                           IF cut THEN <<s[i]>> ELSE Append(current, s[i]),
                           is_digit)

split_ints(s) == SplitIntsFrom(s, 1, <<>>, <<>>, FALSE)

\* <str as Ord>::cmp
RECURSIVE StrCmp(_, _)
StrCmp(x, y) ==
    IF x = <<>> /\ y = <<>> THEN "Equal"
    ELSE IF x = <<>> THEN "Less"
    ELSE IF y = <<>> THEN "Greater"
    ELSE IF Head(x) < Head(y) THEN "Less"
    ELSE IF Head(x) > Head(y) THEN "Greater"
    ELSE StrCmp(Tail(x), Tail(y))

\* <Vec<String> as Ord>::cmp
RECURSIVE VecCmp(_, _)
VecCmp(xs, ys) ==
    IF xs = <<>> /\ ys = <<>> THEN "Equal"
    ELSE IF xs = <<>> THEN "Less"
    ELSE IF ys = <<>> THEN "Greater"
    ELSE IF StrCmp(Head(xs), Head(ys)) # "Equal" THEN StrCmp(Head(xs), Head(ys))
    ELSE VecCmp(Tail(xs), Tail(ys))

RECURSIVE DigitsValue(_, _)
DigitsValue(s, acc) ==
    IF s = <<>> THEN acc ELSE DigitsValue(Tail(s), acc * 10 + (Head(s) - 48))

\* s.parse::<u32>().unwrap_or(0): an optional "+", then digits only.  Up to
\* nine digits always fit a u32; the names of the model hold no longer run.
ParseU32OrZero(s) ==
    LET digits == IF s # <<>> /\ Head(s) = 43 THEN Tail(s) ELSE s
    IN  IF digits # <<>> /\ (\A i \in 1..Len(digits) : IsDigit(digits[i]))
           /\ Len(digits) <= 9
        THEN DigitsValue(digits, 0)
        ELSE 0

\* u32::to_string
RECURSIVE U32ToString(_)
U32ToString(n) ==
    IF n < 10 THEN <<48 + n>> ELSE Append(U32ToString(n \div 10), 48 + (n % 10))

\* lines 442-460: every piece but the last is parsed and printed again
Processed(split) ==
    [i \in 1..Len(split) |->
        IF i = Len(split) THEN split[i] ELSE U32ToString(ParseU32OrZero(split[i]))]

\* lines 463-471: k times insert "0" before the last element
PadZeros(processed, k) ==
    SubSeq(processed, 1, Len(processed) - 1) \o [i \in 1..k |-> <<48>>]
    \o <<processed[Len(processed)]>>

StartsWithDigit(s) == s # <<>> /\ IsDigit(s[1])

sort_entries(a, b) ==
    IF StartsWithDigit(a) \/ StartsWithDigit(b)
    THEN LET a_split == split_ints(a)
             b_split == split_ints(b)
             a_len == Len(a_split)
             b_len == Len(b_split)
         IN  IF a_len = 1 /\ b_len = 1 THEN StrCmp(NameToLowercase(a), NameToLowercase(b))
             ELSE IF a_len = 1 THEN "Greater"
             ELSE IF b_len = 1 THEN "Less"
             \* `a_processed.len() - 1` of an empty Vec: the subtraction overflows
             ELSE IF a_len = 0 \/ b_len = 0 THEN "Panic"
             ELSE LET a_processed == IF b_len > a_len
                                     THEN PadZeros(Processed(a_split), b_len - a_len)
                                     ELSE Processed(a_split)
                      b_processed == IF a_len > b_len
                                     THEN PadZeros(Processed(b_split), a_len - b_len)
                                     ELSE Processed(b_split)
                  IN  VecCmp(a_processed, b_processed)
    ELSE StrCmp(NameToLowercase(a), NameToLowercase(b))

\* slice::sort_by(|a, b| sort_entries(&a.name, &b.name)) on a slice of at
\* most 20 elements, where the standard library sorts by insertion (longer
\* slices are merged, and the lists of the model are shorter): each element
\* moves left past the elements that its own name compares Less than.  A
\* comparison that panics ends the sort: ok is FALSE, the element is put back
\* where it stands and the slice is left in that order.
RECURSIVE InsertBy(_, _)
InsertBy(sorted, x) ==
    IF sorted = <<>> THEN [ok |-> TRUE, list |-> <<x>>]
    ELSE LET last == sorted[Len(sorted)]
             ordering == sort_entries(x.name, last.name)
         IN  IF ordering = "Panic" THEN [ok |-> FALSE, list |-> Append(sorted, x)]
             ELSE IF ordering = "Less"
             THEN LET rest == InsertBy(SubSeq(sorted, 1, Len(sorted) - 1), x)
                  IN  [ok |-> rest.ok, list |-> Append(rest.list, last)]
             ELSE [ok |-> TRUE, list |-> Append(sorted, x)]

RECURSIVE SortByName(_)
SortByName(list) ==
    IF list = <<>> THEN [ok |-> TRUE, list |-> <<>>]
    ELSE LET front == SortByName(SubSeq(list, 1, Len(list) - 1))
         IN  IF front.ok THEN InsertBy(front.list, list[Len(list)])
             ELSE [ok |-> FALSE, list |-> Append(front.list, list[Len(list)])]

\* the names the comparison is checked on
Alphabet == {46, 48, 49, 66, 97}         \* . 0 1 B a

MaxNameLen == 3

ShortNames == UNION {[1..n -> Alphabet] : n \in 0..MaxNameLen}

Name_item == <<105, 116, 101, 109>>             \* "item"

Name_1_item == <<49, 46>> \o Name_item         \* "1.item"

Name_2_item == <<50, 46>> \o Name_item         \* "2.item"

Name_1_10 == <<49, 46, 49, 48>>                 \* "1.10"

Name_1_2 == <<49, 46, 50>>                      \* "1.2"

Name_2_1 == <<50, 46, 49>>                      \* "2.1"

Name_1_1 == <<49, 46, 49>>                      \* "1.1"

ExampleNames == {Name_item, Name_1_item, Name_2_item, Name_1_10, Name_1_2, Name_2_1,
                 Name_1_1, <<49>>, <<97>>, <<98>>, <<66>>}

\* the lists that are sorted; the empty name is a name an entry can have
ExampleLists == Orders({Name_item, Name_1_item, Name_2_item})
                \cup Orders({Name_1_10, Name_1_2, Name_2_1})
                \cup Orders({<<>>, Name_1_2})
                \cup Orders({<<>>, Name_1_2, Name_item})

\* the types of the entries that are sorted: "B", "b" and "a"
SortTypes == {<<66>>, <<98>>, <<97>>}

\* EntryIndex.types after add_multiple(entries) on a new index, for entries
\* that differ from one another (lines 109-120)
RECURSIVE TypesAfter(_)
TypesAfter(added) ==
    IF added = <<>> THEN [t \in {} |-> 0]
    ELSE LET types == TypesAfter(SubSeq(added, 1, Len(added) - 1))
             entry == added[Len(added)]
         IN  IF entry.type \in DOMAIN types
             THEN [types EXCEPT ![entry.type].count = @ + 1]
             ELSE MapInsert(types, entry.type,
                            [name |-> entry.type, count |-> 1,
                             slug |-> NameToLowercase(entry.type)])

\* the index is at rest when two names are compared; when a list is sorted
\* it holds one entry per name of the list, added in the order of the list
InitSort ==
    /\ so_result = "none"
    /\ so_sorted = <<>>
    /\ so_types = <<>>
    /\ \/ /\ so_list = <<>>
          /\ \/ so_a \in ShortNames /\ so_b \in ShortNames
             \/ so_a \in ExampleNames /\ so_b \in ExampleNames
          /\ ei_entries = <<>> /\ ei_index = {} /\ ei_types = [t \in {} |-> 0]
       \/ /\ so_list \in ExampleLists
          /\ so_a = <<>>
          /\ so_b = <<>>
          /\ \E type \in [1..Len(so_list) -> SortTypes] :
                ei_entries = [i \in 1..Len(so_list) |->
                                 [name |-> so_list[i], path |-> "p", type |-> type[i]]]
          /\ ei_index = {EntryJson(ei_entries[i]) : i \in 1..Len(ei_entries)}
          /\ ei_types = TypesAfter(ei_entries)
    /\ ei_last = [calls |-> MaxAdds, entry |-> [name |-> "", path |-> "", type |-> ""],
                  entries |-> <<>>, types |-> [t \in {} |-> 0]]

\* one call sort_entries(so_a, so_b)
Compare ==
    /\ so_list = <<>>
    /\ so_result = "none"
    /\ so_result' = sort_entries(so_a, so_b)
    /\ UNCHANGED <<so_a, so_b, so_list, so_sorted, so_types>>
    /\ UNCHANGED NotSort

\* to_full_index (lines 143-155): self.entries is sorted in place, the values
\* of the types map are collected in the map's order and sorted, and both
\* lists are returned.  When a comparison panics the call returns nothing:
\* so_result is "Panic" and self.entries stays as the sort left it.
SortList ==
    /\ so_list # <<>>
    /\ so_sorted = <<>>
    /\ so_result = "none"
    /\ \E order \in Orders(DOMAIN ei_types) :
          LET sorted == SortByName(ei_entries)
              values == [i \in 1..Len(order) |-> ei_types[order[i]]]
              types == SortByName(values)
          IN  /\ ei_entries' = sorted.list
              /\ IF sorted.ok /\ types.ok
                 THEN /\ so_sorted' = [i \in 1..Len(sorted.list) |-> sorted.list[i].name]
                      /\ so_types' = types.list
                      /\ so_result' = so_result
                 ELSE /\ so_result' = "Panic"
                      /\ UNCHANGED <<so_sorted, so_types>>
    /\ UNCHANGED <<so_a, so_b, so_list, ei_index, ei_types, ei_last>>
    /\ UNCHANGED <<scraperVars, requesterVars, limiterVars, stackVars>>

(***************************************************************************)
(* FilterStack (filter_stack.rs): the stack is the sequence of the names   *)
(* of its filters; a filter is built by the factory registered under its   *)
(* name.                                                                   *)
(***************************************************************************)
FilterNames == {"filter1", "filter2", "filter3"}

MaxStack == 3            \* longest stack

NoCall == [op |-> "none", index |-> "", name |-> "", before |-> <<>>, ok |-> FALSE]

\* FilterStack::new
InitStack ==
    /\ fs_filters = <<>>
    /\ fs_factories = {}
    /\ fs_last = NoCall

\* a lookup that finds the last filter of that name
find_position_last(fs, name) ==
    IF \E i \in 1..Len(fs) : fs[i] = name
    THEN CHOOSE i \in 1..Len(fs) : fs[i] = name /\ \A j \in 1..Len(fs) : fs[j] = name => j <= i
    ELSE 0

\* find_position: Iterator::position, the first filter of that name, as a
\* 1-based index; 0 stands for None
find_position(fs, name) ==
    IF \E i \in 1..Len(fs) : fs[i] = name
    THEN CHOOSE i \in 1..Len(fs) : fs[i] = name /\ \A j \in 1..Len(fs) : fs[j] = name => i <= j
    ELSE 0

\* Vec::insert(at - 1, x) with 1-based `at`: x ends at index `at`
VecInsert(v, at, x) ==
    [i \in 1..Len(v) + 1 |-> IF i < at THEN v[i] ELSE IF i = at THEN x ELSE v[i - 1]]

Called(op, index, name, ok) ==
    fs_last' = [op |-> op, index |-> index, name |-> name, before |-> fs_filters, ok |-> ok]

\* register: the name gets a factory (a second one replaces the first)
Register ==
    /\ \E name \in FilterNames :
          /\ fs_factories' = fs_factories \cup {name}
          /\ Called("register", "", name, TRUE)
    /\ UNCHANGED fs_filters
    /\ UNCHANGED NotStack

\* push_filter: the named filter is appended, registered or not
PushFilter ==
    /\ Len(fs_filters) < MaxStack
    /\ \E name \in FilterNames :
          /\ fs_filters' = Append(fs_filters, name)
          /\ Called("push_filter", "", name, TRUE)
    /\ UNCHANGED fs_factories
    /\ UNCHANGED NotStack

\* clear: the filters go, the factories stay
Clear ==
    /\ fs_filters' = <<>>
    /\ Called("clear", "", "", TRUE)
    /\ UNCHANGED fs_factories
    /\ UNCHANGED NotStack

Push ==
    /\ Len(fs_filters) < MaxStack
    /\ \E name \in FilterNames :
          /\ fs_filters' = IF name \in fs_factories THEN Append(fs_filters, name)
                           ELSE fs_filters
          /\ Called("push", "", name, name \in fs_factories)
    /\ UNCHANGED fs_factories
    /\ UNCHANGED NotStack

InsertBefore ==
    /\ Len(fs_filters) < MaxStack
    /\ \E index \in FilterNames, name \in FilterNames :
          LET pos == find_position(fs_filters, index)
              ok == name \in fs_factories /\ pos # 0
          IN  /\ fs_filters' = IF ok THEN VecInsert(fs_filters, pos, name) ELSE fs_filters
              /\ Called("insert_before", index, name, ok)
    /\ UNCHANGED fs_factories
    /\ UNCHANGED NotStack

InsertAfter ==
    /\ Len(fs_filters) < MaxStack
    /\ \E index \in FilterNames, name \in FilterNames :
          LET pos == find_position(fs_filters, index)
              ok == name \in fs_factories /\ pos # 0
          IN  /\ fs_filters' = IF ok THEN VecInsert(fs_filters, pos + 1, name) ELSE fs_filters
              /\ Called("insert_after", index, name, ok)
    /\ UNCHANGED fs_factories
    /\ UNCHANGED NotStack

Replace ==
    /\ \E index \in FilterNames, name \in FilterNames :
          LET pos == find_position(fs_filters, index)
              ok == name \in fs_factories /\ pos # 0
          IN  /\ fs_filters' = IF ok THEN [fs_filters EXCEPT ![pos] = name] ELSE fs_filters
              /\ Called("replace", index, name, ok)
    /\ UNCHANGED fs_factories
    /\ UNCHANGED NotStack

RestStack == fs_filters = <<>> /\ fs_factories = {} /\ fs_last = NoCall

(***************************************************************************)
(* The specifications: one per component, the other components at rest.    *)
(***************************************************************************)
RestScraper ==
    /\ policy = DefaultPolicy /\ pc = "rest" /\ queue = <<>> /\ visited = {}
    /\ cur = <<>> /\ entries = <<>> /\ pages = EmptyMap /\ redirections = EmptyMap
    /\ error = "none" /\ fetched = <<>> /\ dropped = {} /\ found = {}
    /\ pages_before = EmptyMap
    /\ logged = {} /\ handled = NoResponse
    /\ files = [dir |-> FALSE, entries_json |-> Absent, db_json |-> Absent,
               index_json |-> Absent]

RestRequester ==
    /\ rq_queue = <<>> /\ rq_processed = {} /\ rq_pc = "rest" /\ rq_filled = 0
    /\ rq_tasks = <<>> /\ rq_requests = NoRequests /\ max_concurrency = 1
    /\ on_response = 0

RestLimiter ==
    /\ now = 0 /\ limit = 1 /\ current_minute = 0 /\ counter = 0
    /\ last_request_time = NoTime /\ rl_pc = "rest" /\ wake_at = 0 /\ rl_branch = "none"
    /\ call_no = 0 /\ call_at = 0 /\ created_at = 0 /\ returns_in_minute = 0
    /\ limits = {1}

RestIndex ==
    /\ ei_entries = <<>> /\ ei_index = {} /\ ei_types = [t \in {} |-> 0]
    /\ ei_last = [calls |-> MaxAdds, entry |-> [name |-> "", path |-> "", type |-> ""],
                  entries |-> <<>>, types |-> [t \in {} |-> 0]]

RestSort ==
    /\ so_a = <<>> /\ so_b = <<>> /\ so_result = "rest" /\ so_list = <<>> /\ so_sorted = <<>>
    /\ so_types = <<>>

\* UrlScraper::run
ScraperInit == InitScraper /\ RestRequester /\ RestLimiter /\ RestIndex /\ RestSort /\ RestStack

ScraperNext == CreateDir \/ FsCreate \/ FsWrite \/ Pop \/ Fetch \/ LoopEnd

ScraperSpec == ScraperInit /\ [][ScraperNext]_vars

\* run is one sequential task: whenever it can take a step it does
ScraperFairSpec == ScraperSpec /\ WF_vars(ScraperNext)

\* Requester::request
RequesterInit == RestScraper /\ InitRequester /\ RestLimiter /\ RestIndex /\ RestSort /\ RestStack

RequesterNext == RqWhile \/ RqFill \/ RqAwait \/ RqMark \/ RqSend \/ RqCallback

RequesterSpec == RequesterInit /\ [][RequesterNext]_vars

\* the runtime keeps running the loop and every spawned task
RequesterFairSpec ==
    /\ RequesterSpec
    /\ WF_vars(RqWhile \/ RqFill \/ RqAwait)
    /\ WF_vars(RqMark \/ RqSend \/ RqCallback)

\* RateLimiter
LimiterInit == RestScraper /\ RestRequester /\ InitLimiter /\ RestIndex /\ RestSort /\ RestStack

LimiterNext == RlWait \/ RlWake \/ SetLimit

LimiterSpec == LimiterInit /\ [][LimiterNext]_vars

\* EntryIndex
IndexInit == RestScraper /\ RestRequester /\ RestLimiter /\ InitIndex /\ RestSort /\ RestStack

IndexNext == Add

IndexSpec == IndexInit /\ [][IndexNext]_vars

\* sort_entries
SortInit == RestScraper /\ RestRequester /\ RestLimiter /\ InitSort /\ RestStack

SortNext == Compare \/ SortList

SortSpec == SortInit /\ [][SortNext]_vars

(***************************************************************************)
(* The end of run on its own: the crawl loop has emptied the queue and      *)
(* left a page map and a redirect map, and lines 550-597 resolve and write  *)
(* them.  The maps range over the pages and redirects of a site with the    *)
(* paths a, b, c and A, each page stored with its own content.              *)
(***************************************************************************)
PageC == B1 \o <<"/", "c">>                    \* "http://h/c"

PageUpperA == B1 \o <<"/", "A">>               \* "http://h/A"

ResolveUrls == {PageA, PageB, PageC, PageUpperA}

\* the redirect maps: a url redirects to another url of the site, or not at all
ResolveRedirects ==
    UNION {{r \in [from -> ResolveUrls] : \A u \in from : r[u] # u} :
              from \in SUBSET {PageA, PageB, PageUpperA}}

\* the page maps: lines 533-536 store a page under url_to_path of its url
ResolvePages ==
    {[path \in {url_to_path(DefaultPolicy, u) : u \in us} |-> <<"c", "/">> \o path] :
        us \in SUBSET ResolveUrls}

\* lines 534-535: one primary entry per stored page
RECURSIVE EntriesOf(_)
EntriesOf(order) ==
    IF order = <<>> THEN <<>> ELSE <<create_entry(Head(order))>> \o EntriesOf(Tail(order))

InitResolve ==
    /\ policy = DefaultPolicy
    /\ pc = "loop"
    /\ queue = <<>>
    /\ cur = <<>>
    /\ pages \in ResolvePages
    /\ redirections \in ResolveRedirects
    /\ entries = EntriesOf(CHOOSE o \in Orders(DOMAIN pages) : TRUE)
    /\ visited = {RootUrl} \cup DOMAIN redirections
                 \cup {u \in ResolveUrls : url_to_path(DefaultPolicy, u) \in DOMAIN pages}
    /\ fetched = <<>>
    /\ dropped = {} /\ found = {}
    /\ error = "none"
    /\ pages_before = EmptyMap
    /\ logged = {} /\ handled = NoResponse
    /\ files = [dir |-> TRUE, entries_json |-> [state |-> "initial", data |-> <<>>],
                db_json |-> [state |-> "initial", data |-> <<>>], index_json |-> Absent]

ResolveInit == InitResolve /\ RestRequester /\ RestLimiter /\ RestIndex /\ RestSort /\ RestStack

ResolveNext == LoopEnd \/ FsCreate \/ FsWrite

ResolveSpec == ResolveInit /\ [][ResolveNext]_vars

(***************************************************************************)
(* The start of run up to its first admission decision, under policies     *)
(* that set every rule of should_process_url, each with one initial path.  *)
(***************************************************************************)
DecidePaths ==
    {<<"/">>, <<"/", "a">>, <<"/", "o", "/", "a">>, <<"/", "u">>, <<"/", "u", "/", "o">>,
     <<"/", "u", "/", "a">>, <<"/", "a", "b">>, ExtA, B2 \o <<"/", "a">>}

DecidePolicies ==
    [base_url : {B1},
     base_urls : {None, Some(<<B1, B2>>)},
     initial_paths : {<<path>> : path \in DecidePaths},
     skip_paths : {<<>>, << <<"u">> >>},
     skip_patterns : {<<>>, << <<"(">>, <<"^", "a">> >>},
     only : {None, Some(<< <<"u">>, <<"a">>, <<"o">> >>)},
     only_patterns : {None, Some(<<>>), Some(<< <<"(">>, <<"o">> >>)},
     skip_link : {None, Some(<<"b">>)}]

DecideInit ==
    /\ policy \in DecidePolicies
    /\ pc = "start" /\ queue = <<>> /\ visited = {} /\ cur = <<>> /\ entries = <<>>
    /\ pages = EmptyMap /\ redirections = EmptyMap /\ error = "none" /\ fetched = <<>>
    /\ dropped = {} /\ found = {} /\ pages_before = EmptyMap
    /\ logged = {} /\ handled = NoResponse
    /\ files = [dir |-> FALSE, entries_json |-> Absent, db_json |-> Absent,
               index_json |-> Absent]
    /\ RestRequester /\ RestLimiter /\ RestIndex /\ RestSort /\ RestStack

DecideNext == CreateDir \/ FsCreate \/ FsWrite \/ Pop

DecideSpec == DecideInit /\ [][DecideNext]_vars

\* FilterStack
StackInit ==
    /\ RestScraper /\ RestRequester /\ RestLimiter /\ RestIndex /\ RestSort
    /\ InitStack

StackNext == Register \/ Push \/ PushFilter \/ InsertBefore \/ InsertAfter \/ Replace \/ Clear

StackSpec == StackInit /\ [][StackNext]_vars

(***************************************************************************)
(* Properties of UrlScraper::run.                                          *)
(***************************************************************************)
NoDuplicates(seq) == \A i, j \in 1..Len(seq) : seq[i] = seq[j] => i = j

\* C1: every url handed to fetch_url starts with one of the policy's base
\* URLs, however the url was discovered.
C1_FetchedWithinBaseUrls ==
    \A i \in 1..Len(fetched) :
        \E b \in Range(get_base_urls(policy)) : StartsWith(fetched[i], b)

\* a url outside every base URL was discovered on a fetched page, popped from
\* the frontier and dropped, and the crawl went on to its end
C1_Witness ==
    /\ pc = "done"
    /\ Len(fetched) >= 2
    /\ \E u \in dropped : \A b \in Range(get_base_urls(policy)) : ~StartsWith(u, b)

\* C4: no url is fetched twice; a url is in the visited set from the moment
\* its fetch is issued.
C4_FetchedOnce ==
    /\ NoDuplicates(fetched)
    /\ Range(fetched) \subseteq visited
    /\ (pc = "fetching" => cur \in visited)

\* a url that was already fetched is on the frontier again: it was pushed
\* twice before its fetch
C4_Witness ==
    /\ pc = "loop"
    /\ \E i \in 1..Len(queue) : queue[i] \in Range(fetched)

\* C5: the crawl loop ends with the frontier empty and the results written,
\* unless the file system fails.
C5_CrawlCompletes ==
    <>(\/ pc = "done" /\ queue = <<>> /\ files.db_json.state = "final"
                      /\ files.entries_json.state = "final"
       \/ error \in {"create_dir", "create_entries", "create_db", "write_entries", "write_db"})

(***************************************************************************)
(* Properties of Requester::request.                                       *)
(***************************************************************************)
\* C2: no url is handed to two fetch tasks, so no url is requested twice.
C2_NoUrlRequestedTwice == \A u \in RqUrls : rq_requests[u] <= 1

\* C3: request() returns: the loop exits once every url has been requested.
C3_RequestTerminates == <>(rq_pc = "done")

(***************************************************************************)
(* Properties of RateLimiter::wait.                                        *)
(***************************************************************************)
\* the running (or last) call and all calls before it were made in the
\* clock minute the limiter was created in, and set_limit has not changed
\* the limit
InFirstMinute ==
    call_no >= 1 /\ MinuteOf(call_at) = MinuteOf(created_at) /\ limits = {limit}

\* the running (or last) call is suspended for at most the minimum spacing
ShortWait ==
    /\ rl_pc = "sleeping" => rl_branch = "spacing" /\ wake_at - call_at <= MinSpacing
    /\ rl_pc = "idle" => rl_branch = "spacing" /\ Slept <= MinSpacing

\* the running (or last) call is suspended into the next clock minute
WaitsForNextMinute ==
    /\ rl_branch = "limit"
    /\ rl_pc = "sleeping" => MinuteOf(wake_at) = MinuteOf(call_at) + 1
    /\ rl_pc = "idle" => MinuteOf(last_request_time.at) = MinuteOf(call_at) + 1

\* C6 as stated: on a fresh limiter each of the first `limit` calls within
\* one clock minute is suspended for at most 100 ms, and call limit+1
\* waits for the next minute.
C6_FirstLimitCallsPass ==
    /\ (InFirstMinute /\ call_no <= limit) => ShortWait
    /\ (InFirstMinute /\ call_no = limit + 1) => WaitsForNextMinute

\* C6 amended: each of the first limit-1 calls within one clock minute is
\* suspended for at most 100 ms, and it is call number `limit` that waits
\* for the next minute.
C6_CallAtLimitWaits ==
    /\ (InFirstMinute /\ call_no < limit) => ShortWait
    /\ (InFirstMinute /\ call_no = limit) => WaitsForNextMinute

\* call number `limit` (after limit-1 calls that passed) has returned in the
\* next minute
C6_Witness ==
    /\ InFirstMinute /\ limit >= 2 /\ call_no = limit
    /\ rl_pc = "idle" /\ rl_branch = "limit"

\* the largest limit the limiter was given
PeakLimit == CHOOSE l \in limits : \A k \in limits : k <= l

\* C7: at most `limit` calls of wait() return within one clock minute; when
\* set_limit has changed the limit, at most as many as the largest limit.
C7_ReturnsPerMinuteWithinLimit == returns_in_minute <= PeakLimit

\* a minute in which `limit` calls returned, on a limiter that has since been
\* called again
C7_Witness ==
    limit >= 2 /\ limits = {limit} /\ returns_in_minute = limit /\ rl_pc = "sleeping"

(***************************************************************************)
(* Properties of EntryIndex::add.                                          *)
(***************************************************************************)
TypeCount(types, t) == IF t \in DOMAIN types THEN types[t].count ELSE 0

\* C8: adding a triple that was added before changes neither the entries nor
\* any type count; adding a triple that was not (a known name and path with
\* another type included) stores it and counts it once, under its own type.
C8_AddIdempotentPerTriple ==
    ei_last.calls >= 1 =>
        IF ei_last.entry \in Range(ei_last.entries)
        THEN ei_entries = ei_last.entries /\ ei_types = ei_last.types
        ELSE /\ ei_entries = Append(ei_last.entries, ei_last.entry)
             /\ \A t \in EntryTypes :
                   TypeCount(ei_types, t) =
                      TypeCount(ei_last.types, t) + (IF t = ei_last.entry.type THEN 1 ELSE 0)

\* the last add repeated a triple, in an index that holds one name and path
\* under two types
C8_Witness ==
    /\ ei_last.calls >= 3
    /\ ei_last.entry \in Range(ei_last.entries)
    /\ \E i, j \in 1..Len(ei_entries) :
          /\ ei_entries[i].name = ei_entries[j].name
          /\ ei_entries[i].path = ei_entries[j].path
          /\ ei_entries[i].type # ei_entries[j].type
          /\ ei_entries[i] = ei_last.entry

(***************************************************************************)
(* Properties of sort_entries.                                             *)
(***************************************************************************)
Compared(a, b) == so_list = <<>> /\ so_result \notin {"none", "rest"} /\ so_a = a /\ so_b = b

\* C9: numeric runs compare by integer value: "1.2" < "1.10" < "2.1", and
\* sorting ["1.10", "1.2", "2.1"] yields ["1.2", "1.10", "2.1"].
C9_NumericRunsByValue ==
    /\ Compared(Name_1_2, Name_1_10) => so_result = "Less"
    /\ Compared(Name_1_10, Name_2_1) => so_result = "Less"
    /\ Compared(Name_1_2, Name_2_1) => so_result = "Less"
    /\ (so_sorted # <<>> /\ Range(so_list) = {Name_1_10, Name_1_2, Name_2_1})
          => so_sorted = <<Name_1_2, Name_1_10, Name_2_1>>

\* the runs of a name as test_split_ints and the claims describe them: a
\* new run begins where a non-digit follows a digit
RunCount(s) == 1 + Cardinality({i \in 2..Len(s) : IsDigit(s[i - 1]) /\ ~IsDigit(s[i])})

\* C10: when one of the two names starts with a digit, a single-run name
\* compares Greater than a name of several runs ("item" after "1.item").
C10_SingleRunAfterMultiRun ==
    (/\ so_list = <<>> /\ so_result \notin {"none", "rest"}
     /\ StartsWithDigit(so_a) \/ StartsWithDigit(so_b)
     /\ so_a # <<>> /\ RunCount(so_a) = 1 /\ RunCount(so_b) > 1)
        => so_result = "Greater"

(***************************************************************************)
(* Properties of the redirect resolution at the end of run.                *)
(***************************************************************************)
\* C11: for every recorded redirect whose from-path p and to-path q differ
\* and every page map holding content X under p, the resolved map holds X
\* under q and has no key p, whatever other redirects and pages there are.
C11_RedirectRekeysPage ==
    pc = "done" =>
        \A u \in DOMAIN redirections :
            LET p == url_to_path(policy, u)
                q == url_to_path(policy, redirections[u])
            IN  (p # q /\ p \in DOMAIN pages_before)
                    => /\ q \in DOMAIN pages
                       /\ pages[q] = pages_before[p]
                       /\ p \notin DOMAIN pages

\* be created or written; no failure of a single page (its fetch, its body,
\* one of its filters) makes run return an error.
C15_OnlyFatalErrors ==
    error \in {"none", "create_dir", "create_entries", "create_db", "write_entries",
               "write_db"}

\* C16: a response whose status is not successful or whose content type is
\* not HTML is rejected: handling it adds no key to the page map, no entry
\* to the entry list and no url to the frontier.
C16_RejectedAddsNothing ==
    [][(/\ pc = "fetching"
        /\ logged' = logged
        /\ ~handled'.success \/ handled'.ctype # "html")
          => /\ DOMAIN pages' = DOMAIN pages
             /\ entries' = entries
             /\ queue' = queue]_vars

\* C17: only non-empty pages reach the results: a page whose context ends
\* with empty content adds no key to the page map and no entry, primary or
\* additional, to the entry list, and every key of the page map holds a
\* non-empty content.
C17_OnlyNonEmptyPagesStored ==
    [][/\ (pc = "fetching" /\ pages' = pages) => entries' = entries
       /\ \A path \in DOMAIN pages' : pages'[path] # <<>>]_vars

\* the pages the crawl accepted and stored
StoredUrls == {u \in Range(fetched) :
                 /\ url_to_path(policy, u) \in DOMAIN pages_before
                 /\ pages_before[url_to_path(policy, u)] = <<"c">> \o u}

\* C18: for every accepted page each filter is asked for its entries through
\* get_entries, and every entry returned there is in the entry list that the
\* crawl writes out.
C18_FilterEntriesWritten ==
    files.entries_json.state = "final" =>
        \A u \in StoredUrls :
            \A e \in Range(get_entries(PageTitle(u), url_to_path(policy, u))) :
                e \in Range(files.entries_json.data)

WriteErrors == {"write_entries", "write_db"}

\* run is inside one of the two fs::write calls that follow the loop
SaveSteps == {"save_entries", Writing("save_entries"), "save_db", Writing("save_db")}

\* C19 as stated: every run that finishes its crawl loop ends with
\* entries.json and db.json written with the final entries and page map.
C19_LoopEndWritesFiles ==
    (pc = "done" \/ error \in WriteErrors) =>
        /\ files.entries_json = [state |-> "final", data |-> entries]
        /\ files.db_json = [state |-> "final", data |-> pages]

\* C19 amended: a run that finishes its crawl loop goes through the two
\* writes and nothing else; it either returns Ok with entries.json holding
\* the entries and db.json the redirect-resolved page map, or returns the
\* error of the write that failed: when the write of entries.json fails
\* db.json keeps its initial "{}", when the write of db.json fails only
\* entries.json is final.
C19_LoopEndWritesFilesOrFails ==
    /\ [](/\ pc = "done" =>
                /\ error = "none"
                /\ files.entries_json = [state |-> "final", data |-> entries]
                /\ files.db_json = [state |-> "final", data |-> pages]
                /\ {pages[k] : k \in DOMAIN pages}
                      \subseteq {pages_before[k] : k \in DOMAIN pages_before}
                /\ \A u \in DOMAIN redirections :
                      (/\ DOMAIN redirections = {u}
                       /\ url_to_path(policy, u) \in DOMAIN pages_before
                       /\ url_to_path(policy, u) # url_to_path(policy, redirections[u]))
                         => /\ url_to_path(policy, redirections[u]) \in DOMAIN pages
                            /\ url_to_path(policy, u) \notin DOMAIN pages
          /\ error = "write_entries" =>
                /\ files.entries_json.state \in {"initial", "empty", "partial"}
                /\ files.db_json = [state |-> "initial", data |-> <<>>]
          /\ error = "write_db" =>
                /\ files.entries_json = [state |-> "final", data |-> entries]
                /\ files.db_json.state \in {"initial", "empty", "partial"})
    /\ [][((pc = "loop" /\ queue = <<>>) \/ pc \in SaveSteps) =>
             \/ (pc' \in SaveSteps \cup {"done"} /\ error' = "none")
             \/ (pc' = "failed" /\ error' \in WriteErrors)]_vars

\* a crawl in which a fetch failed and a page was redirected has written both
\* files, the page under the path it was redirected to
C19_Witness ==
    /\ pc = "done"
    /\ logged # {}
    /\ DOMAIN pages # DOMAIN pages_before
    /\ files.entries_json = [state |-> "final", data |-> entries]
    /\ files.db_json = [state |-> "final", data |-> pages]

\* C12: under a policy with a skip regex, no key of the page map written to
\* db.json (after redirect resolution) is a path that matches the skip regex.
C12_NoSkippedPathInDb ==
    files.db_json.state = "final" =>
        \A path \in DOMAIN files.db_json.data :
            ~PatternListMatches(policy.skip_patterns, path)

(***************************************************************************)
(* Properties of should_process_url.                                       *)
(***************************************************************************)
\* the url that run popped first
FirstUrl == get_initial_urls(policy)[1]

\* the first iteration of the loop has made its decision
Decided == pc \in {"loop", "fetching"} /\ Len(queue) < Len(get_initial_urls(policy))

\* C13: should_process_url(url) is true exactly when url starts with some
\* base URL, the skip predicate (if set) is false for it, its path matches no
\* skip path and no skip regex, and its path matches the allow-path list (if
\* set) and the allow-regex list (if set).
C13_ProcessedExactlyWhen ==
    Decided =>
        LET url == FirstUrl
            path == url_to_path(policy, url)
        IN  (url \in Range(fetched)) <=>
               /\ \E b \in Range(get_base_urls(policy)) : StartsWith(url, b)
               /\ policy.skip_link.some => ~Contains(url, policy.skip_link.val)
               /\ \A sp \in Range(policy.skip_paths) :
                     path # sp /\ ~StartsWith(path, sp \o <<"/">>)
               /\ \A re \in Range(policy.skip_patterns) :
                     RegexValid(re) => ~RegexIsMatch(re, path)
               /\ policy.only.some =>
                     \E op \in Range(policy.only.val) :
                         path = op \/ StartsWith(path, op \o <<"/">>)
               /\ policy.only_patterns.some =>
                     \E re \in Range(policy.only_patterns.val) :
                         RegexValid(re) /\ RegexIsMatch(re, path)

\* a url that a skip path and the allow list both select was dropped
C13_Witness ==
    /\ Decided
    /\ FirstUrl \in dropped
    /\ policy.only.some
    /\ PathListMatches(policy.only.val, url_to_path(policy, FirstUrl))
    /\ PathListMatches(policy.skip_paths, url_to_path(policy, FirstUrl))
    /\ ~policy.skip_link.some /\ ~policy.only_patterns.some

(***************************************************************************)
(* Properties of the Requester's rounds.                                   *)
(***************************************************************************)
\* the spawned tasks that have not completed
InFlight == {i \in 1..Len(rq_tasks) : rq_tasks[i].st # "done"}

\* C20: at no point during request are more than max_concurrency fetch
\* tasks in flight, whatever the interleaving of task starts and completions
\* and however many urls are queued.
C20_InFlightWithinMaxConcurrency == Cardinality(InFlight) <= max_concurrency

\* max_concurrency tasks are in flight while a url that was never requested
\* waits in the queue, after an earlier round has completed
C20_Witness ==
    /\ Cardinality(InFlight) = max_concurrency
    /\ \E i \in 1..Len(rq_queue) :
          rq_queue[i] \notin rq_processed /\ rq_requests[rq_queue[i]] = 0
    /\ \A i \in InFlight : rq_requests[rq_tasks[i].url] = 0
    /\ rq_requests # NoRequests

\* C29: when the fetch of a url is redirected to an effective url that
\* should_process_url rejects (one outside the base URLs included), the
\* iteration stores no page, adds no entry and pushes no link.
C29_RedirectedAwayNotStored ==
    [][(/\ pc = "fetching"
        /\ cur \in DOMAIN redirections'
        /\ ~should_process_url(policy, redirections'[cur]))
          => /\ pages' = pages
             /\ entries' = entries
             /\ queue' = queue
             /\ found' = found]_vars

\* C30: the directory written by a run that returned Ok holds the files
\* load_from_disk requires, index.json and db.json, so that load_from_disk
\* registers the documentation.
C30_RunOutputLoadsBack ==
    pc = "done" => load_from_disk(files)

\* the while loop of run has ended: the frontier is empty, or run went on
\* to write its files
LoopEnded ==
    \/ pc = "loop" /\ queue = <<>>
    \/ pc \in SaveSteps
    \/ pc = "done"
    \/ pc = "failed" /\ error \in WriteErrors

\* C22: when the loop of run has ended, every url found (a seed url, or a
\* link extracted from a page that was processed) that should_process_url
\* accepts has been handed to fetch_url.
C22_AcceptedFoundUrlsFetched ==
    LoopEnded =>
        \A u \in found : should_process_url(policy, u) => u \in Range(fetched)

\* the loop ended after a page gave two links that are not seed urls, one
\* fetched and one rejected by should_process_url
C22_Witness ==
    /\ LoopEnded
    /\ \E u, v \in found \ Range(get_initial_urls(policy)) :
          /\ u \in Range(fetched)
          /\ ~should_process_url(policy, v)
          /\ v \in dropped

\* C23: a wait() whose increment makes the counter meet or exceed the limit
\* is suspended for 61 - s seconds, s the second of the minute of the call;
\* it returns in second 1 of the next clock minute with counter 1 and
\* current_minute the minute of the return.
C23_LimitWaitEndsAfterNextMinuteStart ==
    [][/\ (rl_pc = "idle" /\ call_no' = call_no + 1 /\ counter' >= limit) =>
             /\ rl_pc' = "sleeping"
             /\ wake_at' = call_at' + (MinuteMargin - SecondOf(call_at')) * MillisPerSecond
       /\ (rl_pc = "sleeping" /\ counter >= limit /\ rl_pc' = "idle") =>
             /\ now' = wake_at
             /\ MinuteOf(now') = MinuteOf(call_at) + 1
             /\ SecondOf(now') = 1
             /\ counter' = 1
             /\ current_minute' = MinuteOf(now')
      ]_vars

\* a call late in its minute, on a limiter with a limit above 1, reached the
\* limit, slept and returned
C23_Witness ==
    /\ rl_pc = "idle"
    /\ rl_branch = "limit"
    /\ limit > 1
    /\ SecondOf(call_at) > 0
    /\ call_no > limit

\* C24: a step in which wait() returns leaves at least MinSpacing between
\* this return and the return before it, and the first call on a fresh
\* limiter whose counter stays under the limit returns at the time it was
\* made.
C24_ReturnsSpacedByMinSpacing ==
    [][ /\ (rl_pc' = "idle" /\ (call_no' = call_no + 1 \/ rl_pc = "sleeping")
            /\ last_request_time.some) =>
              last_request_time'.at - last_request_time.at >= MinSpacing
        /\ (call_no = 0 /\ call_no' = 1 /\ counter' < limit) =>
              /\ rl_pc' = "idle"
              /\ last_request_time' = [some |-> TRUE, at |-> call_at']
              /\ call_at' \in {created_at + d : d \in Delays}
      ]_vars

\* a call made less than MinSpacing after the last return was held back,
\* and the first call of the limiter had returned without delay
C24_Witness ==
    /\ rl_pc = "idle"
    /\ rl_branch = "spacing"
    /\ call_no = 2
    /\ Slept > 0
    /\ last_request_time.at = created_at + MinSpacing

\* C25: split_ints cuts a name exactly where a non-digit follows a digit:
\* every run after the first begins with a non-digit that follows the digit
\* ending the run before it, and no run holds a digit followed by a
\* non-digit ("1.2" gives "1" and ".2").
C25_SplitIntsCutsAfterDigits ==
    (so_list = <<>> /\ so_result \notin {"none", "rest"}) =>
        LET runs == split_ints(so_a)
        IN  /\ \A i \in 2..Len(runs) :
                  /\ ~IsDigit(runs[i][1])
                  /\ IsDigit(runs[i - 1][Len(runs[i - 1])])
            /\ \A i \in 1..Len(runs) : \A k \in 1..Len(runs[i]) - 1 :
                  ~(IsDigit(runs[i][k]) /\ ~IsDigit(runs[i][k + 1]))

\* the sum of the counts of the types in S
RECURSIVE SumCounts(_, _)
SumCounts(types, S) ==
    IF S = {} THEN 0
    ELSE LET t == CHOOSE x \in S : TRUE
         IN  types[t].count + SumCounts(types, S \ {t})

\* C26: after every add (add_multiple is a loop of adds) the count recorded
\* for a type is the number of stored entries of that type, no recorded
\* count is 0, and the counts add up to the number of stored entries, which
\* is the size of the dedup set.
C26_TypeSummaryAgreesWithEntries ==
    /\ \A t \in EntryTypes :
          TypeCount(ei_types, t) =
             Cardinality({i \in 1..Len(ei_entries) : ei_entries[i].type = t})
    /\ \A t \in DOMAIN ei_types : ei_types[t].count > 0 /\ ei_types[t].name = t
    /\ SumCounts(ei_types, DOMAIN ei_types) = Len(ei_entries)
    /\ Len(ei_entries) = Cardinality(ei_index)

\* three entries of two types are stored, one type twice, and one add
\* repeated an entry
C26_Witness ==
    /\ Len(ei_entries) = 3
    /\ ei_last.calls = 4
    /\ DOMAIN ei_types = EntryTypes
    /\ \E t \in EntryTypes : ei_types[t].count = 2

\* Ordering::reverse
Reverse(r) == IF r = "Less" THEN "Greater" ELSE IF r = "Greater" THEN "Less" ELSE r

\* C27: for non-empty names, sort_entries(a, b) is the reverse of
\* sort_entries(b, a), and when a is not Greater than b and b is not Greater
\* than c then a is not Greater than c.
C27_SortEntriesConsistentOrder ==
    (/\ so_list = <<>> /\ so_result \notin {"none", "rest"}
     /\ so_a # <<>> /\ so_b # <<>>) =>
        /\ so_result \in {"Less", "Equal", "Greater"}
        /\ sort_entries(so_b, so_a) = Reverse(so_result)
        /\ so_result # "Greater" =>
              \A c \in ShortNames \ {<<>>} :
                  sort_entries(so_b, c) # "Greater" => sort_entries(so_a, c) # "Greater"

\* C28: the resolved page map does not depend on the order in which the
\* page keys are visited: with the path redirections that gave the map run
\* wrote, every order of the page keys gives that same map.
C28_ResolutionOrderIndependent ==
    pc = "done" =>
        \A o1 \in Orders(DOMAIN redirections) :
            LET path_redirections == PathRedirections(policy, redirections, o1, EmptyMap)
                Result(o2) == ApplyRedirections(pages_before, path_redirections, o2)
            IN  (\E o2 \in Orders(DOMAIN pages_before) : Result(o2) = pages)
                    => \A o2 \in Orders(DOMAIN pages_before) : Result(o2) = pages

(***************************************************************************)
(* Properties of FilterStack.                                              *)
(***************************************************************************)
\* the index of the first filter named as the last call's target
FirstNamed == CHOOSE i \in 1..Len(fs_last.before) :
                 /\ fs_last.before[i] = fs_last.index
                 /\ \A j \in 1..i - 1 : fs_last.before[j] # fs_last.index

\* C21: after a successful insert_after(t, n) the filter n sits immediately
\* after the first filter named t, after insert_before(t, n) immediately
\* before it, replace(t, n) puts n at t's position and keeps the length, and
\* push(n) appends n; the other filters keep their relative order.
C21_StackKeepsPositionalOrder ==
    fs_last.ok =>
        LET old == fs_last.before
            n == fs_last.name
        IN  /\ fs_last.op = "push" => fs_filters = old \o <<n>>
            /\ fs_last.op = "insert_after" =>
                  fs_filters = SubSeq(old, 1, FirstNamed) \o <<n>>
                               \o SubSeq(old, FirstNamed + 1, Len(old))
            /\ fs_last.op = "insert_before" =>
                  fs_filters = SubSeq(old, 1, FirstNamed - 1) \o <<n>>
                               \o SubSeq(old, FirstNamed, Len(old))
            /\ fs_last.op = "replace" =>
                  /\ Len(fs_filters) = Len(old)
                  /\ fs_filters[FirstNamed] = n
                  /\ \A i \in 1..Len(old) : i # FirstNamed => fs_filters[i] = old[i]

\* a successful insert_after into a stack that holds the target name twice,
\* a name that push_filter placed there and that has no factory
C21_Witness ==
    /\ fs_last.ok
    /\ fs_last.op = "insert_after"
    /\ fs_last.name # fs_last.index
    /\ fs_last.index \notin fs_factories
    /\ Cardinality({i \in 1..Len(fs_last.before) : fs_last.before[i] = fs_last.index}) = 2

====
